---- MODULE Spec2Model ----
(***************************************************************************)
(* A model of process_transcripts.py: the character-by-character reader    *)
(* read_custom_format (tilde separates fields, backtick separates rows),   *)
(* its chunked aggregation into a table, and the interactive driver        *)
(* process_transcript_files with save_processed_data.                      *)
(*                                                                         *)
(* A Python str is a sequence of one-character strings; the empty str ""   *)
(* that handle.read(1) returns at end of file is EOF.  Python's 0-based    *)
(* list positions are 1-based here.  None as a field value is the value    *)
(* NoneValue, which no str equals.                                         *)
(***************************************************************************)
EXTENDS Integers, Sequences, FiniteSets, TLC

VARIABLES
    \* the file behind the handle, and the handle's position
    file, pos, eof,
    \* read_custom_format's parameters
    nrows, usecols, chunksize,
    \* read_custom_format's locals
    pc, header_line, headers, col_indices, used_headers, current_row,
    current_chunk, dfs, chunk_count, row_count, final_df,
    \* process_transcript_files: position, inputs, locals, the output directory
    ppc, files, sample_df, file_index, file_dfs, df, response, save_response,
    format_choice, selected_formats, save_index, save_results, processed_data

readerVars == <<file, pos, eof, nrows, usecols, chunksize, pc, header_line,
                headers, col_indices, used_headers, current_row,
                current_chunk, dfs, chunk_count, row_count, final_df>>

procVars == <<ppc, files, sample_df, file_index, file_dfs, df, response,
              save_response, format_choice, selected_formats, save_index,
              save_results, processed_data>>

vars == <<readerVars, procVars>>

----------------------------------------------------------------------------
(* Bounds of the model. *)

\* the longest file body (the characters after the header's row separator)
MaxBody == 4
\* the largest row limit tried
MaxRows == 1
\* the largest batch capacity tried
MaxChunk == 2
\* the longest format choice typed at the prompt
MaxChoice == 3

----------------------------------------------------------------------------
(* Characters and strings. *)

EOF == ""
\* the backtick; a TLA+ string cannot hold that character, so it is spelled out
ROW_SEP == "BACKTICK"
FIELD_SEP == "~"
Whitespace == {" ", "\t", "\n", "\r"}
NoneValue == <<"None">>
NaN == <<"NaN">>

RECURSIVE LStrip(_)
LStrip(s) ==
    IF s # <<>> /\ Head(s) \in Whitespace THEN LStrip(Tail(s)) ELSE s

RECURSIVE RStrip(_)
RStrip(s) ==
    IF s # <<>> /\ s[Len(s)] \in Whitespace
    THEN RStrip(SubSeq(s, 1, Len(s) - 1))
    ELSE s

\* str.strip()
Strip(s) == RStrip(LStrip(s))

\* str.split(sep): one piece more than sep occurs, empty pieces kept
Split(s, sep) ==
    LET at == {i \in 1..Len(s) : s[i] = sep}
        count == Cardinality(at)
        \* the k-th occurrence of sep; 0 before the first, past the end after
        \* the last
        nth(k) == IF k = 0 THEN 0
                  ELSE IF k > count THEN Len(s) + 1
                  ELSE CHOOSE i \in at :
                           Cardinality({j \in at : j <= i}) = k
    IN [k \in 1..(count + 1) |-> SubSeq(s, nth(k - 1) + 1, nth(k) - 1)]

\* x in list
InList(x, list) == \E i \in 1..Len(list) : list[i] = x

\* list.index(x): the first position of x
IndexOf(list, x) ==
    CHOOSE i \in 1..Len(list) :
        list[i] = x /\ \A j \in 1..(i - 1) : list[j] # x

RECURSIVE FilterIn(_, _)
FilterIn(list, allowed) ==
    IF list = <<>> THEN <<>>
    ELSE IF InList(Head(list), allowed)
         THEN <<Head(list)>> \o FilterIn(Tail(list), allowed)
         ELSE FilterIn(Tail(list), allowed)

----------------------------------------------------------------------------
(* Tables.  A frame is [ok, columns, rows]; ok = FALSE is a raised error. *)

NoFrame == [ok |-> FALSE, columns |-> <<>>, rows |-> <<>>]

Max(a, b) == IF a >= b THEN a ELSE b

RECURSIVE MaxWidth(_)
MaxWidth(data) ==
    IF data = <<>> THEN 0 ELSE Max(Len(Head(data)), MaxWidth(Tail(data)))

PadRow(row, width) ==
    [k \in 1..width |-> IF k <= Len(row) THEN row[k] ELSE NoneValue]

\* a conversion that drops the rows of another width instead of raising
DataFrame_Lenient(data, columns) ==
    [ok |-> TRUE, columns |-> columns,
     rows |-> SelectSeq(data, LAMBDA row : Len(row) = Len(columns))]

\* pd.DataFrame(data, columns=columns) on a list of lists: the rows are padded
\* with None to the longest row, and a width other than len(columns) raises
\* ValueError ("n columns passed, passed data had m columns")
DataFrame(data, columns) ==
    IF data # <<>> /\ MaxWidth(data) # Len(columns)
    THEN NoFrame
    ELSE [ok |-> TRUE, columns |-> columns,
          rows |-> [i \in 1..Len(data) |-> PadRow(data[i], Len(columns))]]

HasDuplicates(list) ==
    \E i, j \in 1..Len(list) : i < j /\ list[i] = list[j]

RECURSIVE UnionColumns(_, _)
UnionColumns(acc, frames) ==
    IF frames = <<>> THEN acc
    ELSE UnionColumns(
             acc \o SelectSeq(Head(frames).columns,
                              LAMBDA c : ~InList(c, acc)),
             Tail(frames))

Reindex(frame, columns) ==
    [i \in 1..Len(frame.rows) |->
        [k \in 1..Len(columns) |->
            IF InList(columns[k], frame.columns)
            THEN frame.rows[i][IndexOf(frame.columns, columns[k])]
            ELSE NaN]]

RECURSIVE AppendRows(_, _)
AppendRows(frames, columns) ==
    IF frames = <<>> THEN <<>>
    ELSE Reindex(Head(frames), columns) \o AppendRows(Tail(frames), columns)

RECURSIVE PlainRows_Reversed(_)
PlainRows_Reversed(frames) ==
    IF frames = <<>> THEN <<>>
    ELSE PlainRows_Reversed(Tail(frames)) \o Head(frames).rows

\* the rows of frames of the same columns, stacked in list order
RECURSIVE PlainRows(_)
PlainRows(frames) ==
    IF frames = <<>> THEN <<>>
    ELSE Head(frames).rows \o PlainRows(Tail(frames))

\* pd.concat(objs, ignore_index=True): no objects raise ValueError; frames of
\* the same columns are stacked in list order; frames of different columns
\* are aligned on the union of the columns (in order of first appearance,
\* NaN where a frame lacks one), which raises when the columns of a frame repeat
Concat(objs) ==
    IF objs = <<>> THEN NoFrame
    ELSE IF \A i \in 1..Len(objs) : objs[i].columns = objs[1].columns
    THEN [ok |-> TRUE, columns |-> objs[1].columns, rows |-> PlainRows(objs)]
    ELSE IF \E i \in 1..Len(objs) : HasDuplicates(objs[i].columns)
    THEN NoFrame
    ELSE LET columns == UnionColumns(<<>>, objs)
         IN [ok |-> TRUE, columns |-> columns,
             rows |-> AppendRows(objs, columns)]

----------------------------------------------------------------------------
(* read_custom_format, one step per loop iteration, on the record of its   *)
(* locals.  nrows is <<>> for None and <<n>> for n; usecols is <<>> for    *)
(* None (None and the empty list are both falsy at `if usecols:`).         *)

Truthy(n) == n # <<>> /\ n[1] # 0

InitLocals ==
    [pc |-> "header", header_line |-> <<>>, headers |-> <<>>,
     col_indices |-> <<>>, used_headers |-> <<>>, current_row |-> <<>>,
     current_chunk |-> <<>>, dfs |-> <<>>, chunk_count |-> 0,
     row_count |-> 0, final_df |-> NoFrame]

\* [h.strip() for h in header_line.split('~')]
ParseHeaders(line) ==
    LET parts == Split(line, FIELD_SEP)
    IN [i \in 1..Len(parts) |-> Strip(parts[i])]

\* [headers.index(col) for col in usecols if col in headers], or
\* range(len(headers)) without usecols
ColIndices(hs, ucols) ==
    IF ucols # <<>>
    THEN LET found == FilterIn(ucols, hs)
         IN [k \in 1..Len(found) |-> IndexOf(hs, found[k])]
    ELSE [i \in 1..Len(hs) |-> i]

\* the header loop: one character, until the first row separator or EOF
HeaderStep(s, char, ucols) ==
    IF char = EOF \/ char = ROW_SEP
    THEN LET hs == ParseHeaders(s.header_line)
             ci == ColIndices(hs, ucols)
         IN [s EXCEPT !.pc = "rows", !.headers = hs, !.col_indices = ci,
                      !.used_headers = [k \in 1..Len(ci) |-> hs[ci[k]]]]
    ELSE [s EXCEPT !.header_line = Append(@, char)]

RowData_OffByOne(fields, ci, ucols) ==
    IF ucols # <<>>
    THEN [k \in 1..Len(ci) |->
             IF ci[k] < Len(fields) THEN fields[ci[k]] ELSE NoneValue]
    ELSE fields

\* [fields[i] if i < len(fields) else None for i in col_indices], or fields
RowData(fields, ci, ucols) ==
    IF ucols # <<>>
    THEN [k \in 1..Len(ci) |->
             IF ci[k] <= Len(fields) THEN fields[ci[k]] ELSE NoneValue]
    ELSE fields

ChunkFull_Late(chunk, csize) == Len(chunk) > csize

\* whether the batch is converted now: len(current_chunk) >= chunksize
ChunkFull(chunk, csize) == Len(chunk) >= csize

\* whether the row loop stops: nrows and row_count >= nrows
LimitReached(nr, count) == Truthy(nr) /\ count >= nr[1]

\* whether the row is emitted: `if current_row.strip():`
IsRecord_NoStrip(row) == row # <<>>

IsRecord(row) == Strip(row) # <<>>

\* a row separator was read
EndOfRow(s, nr, ucols, csize) ==
    LET emit == IsRecord(s.current_row)
        row_data == RowData(Split(s.current_row, FIELD_SEP),
                            s.col_indices, ucols)
        chunk == IF emit THEN Append(s.current_chunk, row_data)
                 ELSE s.current_chunk
        count == IF emit THEN s.row_count + 1 ELSE s.row_count
        full == ChunkFull(chunk, csize)
        chunk_df == DataFrame(chunk, s.used_headers)
    IN IF full /\ ~chunk_df.ok
       THEN [s EXCEPT !.pc = "failed", !.current_chunk = chunk,
                      !.row_count = count]
       ELSE LET t == [s EXCEPT
                        !.current_chunk = IF full THEN <<>> ELSE chunk,
                        !.dfs = IF full THEN Append(@, chunk_df) ELSE @,
                        !.chunk_count = IF full THEN @ + 1 ELSE @,
                        !.row_count = count]
            IN IF LimitReached(nr, count)
               THEN [t EXCEPT !.pc = "flush"]
               ELSE [t EXCEPT !.current_row = <<>>]

\* the row loop: one character
RowStep(s, char, nr, ucols, csize) ==
    IF char = EOF THEN [s EXCEPT !.pc = "flush"]
    ELSE IF char = ROW_SEP THEN EndOfRow(s, nr, ucols, csize)
    ELSE [s EXCEPT !.current_row = Append(@, char)]

\* after the loop: the partially filled batch becomes the last fragment
FlushStep(s) ==
    IF s.current_chunk # <<>>
    THEN LET chunk_df == DataFrame(s.current_chunk, s.used_headers)
         IN IF chunk_df.ok
            THEN [s EXCEPT !.pc = "concat", !.dfs = Append(@, chunk_df)]
            ELSE [s EXCEPT !.pc = "failed"]
    ELSE [s EXCEPT !.pc = "concat"]

\* final_df = pd.concat(dfs, ignore_index=True)
ConcatStep(s) ==
    LET all == Concat(s.dfs)
    IN IF all.ok THEN [s EXCEPT !.pc = "done", !.final_df = all]
       ELSE [s EXCEPT !.pc = "failed"]

\* one handle.read(1) of either loop; no effect once the loops are left
CharStep(s, char, nr, ucols, csize) ==
    CASE s.pc = "header" -> HeaderStep(s, char, ucols)
      [] s.pc = "rows" -> RowStep(s, char, nr, ucols, csize)
      [] OTHER -> s

\* the characters stream[lo..hi], in order (halved to keep the evaluation
\* shallow; the steps are the same left to right)
RECURSIVE RunRange(_, _, _, _, _, _, _)
RunRange(s, stream, lo, hi, nr, ucols, csize) ==
    IF lo > hi THEN s
    ELSE IF lo = hi THEN CharStep(s, stream[lo], nr, ucols, csize)
    ELSE LET mid == (lo + hi) \div 2
             left == RunRange(s, stream, lo, mid, nr, ucols, csize)
         IN IF left.pc \in {"header", "rows"}
            THEN RunRange(left, stream, mid + 1, hi, nr, ucols, csize)
            ELSE left

\* the reads that return "" at the end of the file, then lines 117-123
Finish(s, nr, ucols, csize) ==
    LET atEnd == CharStep(CharStep(s, EOF, nr, ucols, csize), EOF,
                          nr, ucols, csize)
        flushed == IF atEnd.pc = "flush" THEN FlushStep(atEnd) ELSE atEnd
    IN IF flushed.pc = "concat" THEN ConcatStep(flushed) ELSE flushed

\* the whole call on a file of known content
read_custom_format(stream, nr, ucols, csize) ==
    Finish(RunRange(InitLocals, stream, 1, Len(stream), nr, ucols, csize),
           nr, ucols, csize)

----------------------------------------------------------------------------
(* The reader as a state machine: one action per loop iteration.  The file *)
(* begins with one of FileStarts; the characters after it are the          *)
(* environment's choice, one per read, up to MaxBody of them.              *)

A == <<"a">>
B == <<"b">>
C == <<"c">>

\* how a file begins (none begins another): two columns; one column and a
\* first record; an empty header; a header that the end of the file ends
FileStarts ==
    { <<"a", FIELD_SEP, "b", ROW_SEP>>,
      <<"a", ROW_SEP, "a", ROW_SEP>>,
      <<ROW_SEP>>,
      <<" ", "b", " ", FIELD_SEP, "a">> }

BodyAlphabet == {"a", " ", FIELD_SEP, ROW_SEP}

UsecolsChoices == { <<>>, <<B, A>>, <<C, A>> }

NrowsChoices == { <<>> } \cup { <<n>> : n \in 0..MaxRows }

ChunkSizes == 1..MaxChunk

Locals ==
    [pc |-> pc, header_line |-> header_line, headers |-> headers,
     col_indices |-> col_indices, used_headers |-> used_headers,
     current_row |-> current_row, current_chunk |-> current_chunk,
     dfs |-> dfs, chunk_count |-> chunk_count, row_count |-> row_count,
     final_df |-> final_df]

Store(s) ==
    /\ pc' = s.pc
    /\ header_line' = s.header_line
    /\ headers' = s.headers
    /\ col_indices' = s.col_indices
    /\ used_headers' = s.used_headers
    /\ current_row' = s.current_row
    /\ current_chunk' = s.current_chunk
    /\ dfs' = s.dfs
    /\ chunk_count' = s.chunk_count
    /\ row_count' = s.row_count
    /\ final_df' = s.final_df

ReaderStart ==
    /\ pos = 0
    /\ eof = FALSE
    /\ pc = InitLocals.pc
    /\ header_line = InitLocals.header_line
    /\ headers = InitLocals.headers
    /\ col_indices = InitLocals.col_indices
    /\ used_headers = InitLocals.used_headers
    /\ current_row = InitLocals.current_row
    /\ current_chunk = InitLocals.current_chunk
    /\ dfs = InitLocals.dfs
    /\ chunk_count = InitLocals.chunk_count
    /\ row_count = InitLocals.row_count
    /\ final_df = InitLocals.final_df

ProcIdle ==
    /\ ppc = "idle"
    /\ files = <<>>
    /\ sample_df = NoFrame
    /\ file_index = 0
    /\ file_dfs = <<>>
    /\ df = NoFrame
    /\ response = <<>>
    /\ save_response = <<>>
    /\ format_choice = <<>>
    /\ selected_formats = <<>>
    /\ save_index = 0
    /\ save_results = {}
    /\ processed_data = {}

Init ==
    /\ file \in FileStarts
    /\ nrows \in NrowsChoices
    /\ usecols \in UsecolsChoices
    /\ chunksize \in ChunkSizes
    /\ ReaderStart
    /\ ProcIdle

\* the characters the file has after its start
Appended ==
    LET start == CHOOSE st \in FileStarts :
                     Len(st) <= Len(file) /\ SubSeq(file, 1, Len(st)) = st
    IN Len(file) - Len(start)

\* what handle.read(1) may return now, the end of the file apart
Readable ==
    IF pos < Len(file) THEN {file[pos + 1]}
    ELSE IF ~eof /\ pc = "rows" /\ Appended < MaxBody
    THEN BodyAlphabet
    ELSE {}

Consume(char) ==
    /\ file' = IF pos < Len(file) THEN file ELSE Append(file, char)
    /\ pos' = pos + 1
    /\ eof' = eof

HitEnd ==
    /\ pos = Len(file)
    /\ eof' = TRUE
    /\ UNCHANGED <<file, pos>>

\* lines 65-69, a character of the header
ReadHeaderChar ==
    /\ pc = "header"
    /\ \E char \in Readable \ {ROW_SEP} :
          /\ Consume(char)
          /\ Store(HeaderStep(Locals, char, usecols))
    /\ UNCHANGED <<nrows, usecols, chunksize, procVars>>

\* lines 65-77, the header's row separator
ReadHeaderEnd ==
    /\ pc = "header"
    /\ ROW_SEP \in Readable
    /\ Consume(ROW_SEP)
    /\ Store(HeaderStep(Locals, ROW_SEP, usecols))
    /\ UNCHANGED <<nrows, usecols, chunksize, procVars>>

\* lines 65-77, the file ends inside the header
ReadHeaderEOF ==
    /\ pc = "header"
    /\ HitEnd
    /\ Store(HeaderStep(Locals, EOF, usecols))
    /\ UNCHANGED <<nrows, usecols, chunksize, procVars>>

\* lines 84-85, 112-113, a character of a row
ReadRowChar ==
    /\ pc = "rows"
    /\ \E char \in Readable \ {ROW_SEP} :
          /\ Consume(char)
          /\ Store(RowStep(Locals, char, nrows, usecols, chunksize))
    /\ UNCHANGED <<nrows, usecols, chunksize, procVars>>

\* lines 84-111, a row separator
ReadRowEnd ==
    /\ pc = "rows"
    /\ ROW_SEP \in Readable
    /\ Consume(ROW_SEP)
    /\ Store(RowStep(Locals, ROW_SEP, nrows, usecols, chunksize))
    /\ UNCHANGED <<nrows, usecols, chunksize, procVars>>

\* lines 84-87, the end of the file
ReadRowEOF ==
    /\ pc = "rows"
    /\ HitEnd
    /\ Store(RowStep(Locals, EOF, nrows, usecols, chunksize))
    /\ UNCHANGED <<nrows, usecols, chunksize, procVars>>

\* lines 117-120
FlushRemaining ==
    /\ pc = "flush"
    /\ Store(FlushStep(Locals))
    /\ UNCHANGED <<file, pos, eof, nrows, usecols, chunksize, procVars>>

\* lines 122-126
Combine ==
    /\ pc = "concat"
    /\ Store(ConcatStep(Locals))
    /\ UNCHANGED <<file, pos, eof, nrows, usecols, chunksize, procVars>>

Next ==
    \/ ReadHeaderChar
    \/ ReadHeaderEnd
    \/ ReadHeaderEOF
    \/ ReadRowChar
    \/ ReadRowEnd
    \/ ReadRowEOF
    \/ FlushRemaining
    \/ Combine

Spec == Init /\ [][Next]_vars

----------------------------------------------------------------------------
(* process_transcript_files and save_processed_data.  A call of            *)
(* read_custom_format is one step here (the reader above, run to its end). *)

\* def read_custom_format(..., chunksize=100000)
DefaultChunksize == 100000
\* def analyze_file_structure(filename, nrows=5)
AnalyzeNrows == 5

COMPANYNAME == <<"C", "O", "M", "P", "A", "N", "Y", "N", "A", "M", "E">>
DATEOFCALLUTC ==
    <<"D", "A", "T", "E", "O", "F", "C", "A", "L", "L", "U", "T", "C">>
ANNOUNCEDDATEUTC ==
    <<"A", "N", "N", "O", "U", "N", "C", "E", "D", "D", "A", "T", "E", "U",
      "T", "C">>
TRANSCRIPTCOMPONENTTYPE ==
    <<"T", "R", "A", "N", "S", "C", "R", "I", "P", "T", "C", "O", "M", "P",
      "O", "N", "E", "N", "T", "T", "Y", "P", "E">>

date_columns == <<ANNOUNCEDDATEUTC, DATEOFCALLUTC>>

YES == <<"y", "e", "s">>

\* str.lower(), on the letters the answers use
LowerChar(c) ==
    CASE c = "Y" -> "y"
      [] c = "E" -> "e"
      [] c = "S" -> "s"
      [] c = "N" -> "n"
      [] c = "O" -> "o"
      [] OTHER -> c

Lower(s) == [i \in 1..Len(s) |-> LowerChar(s[i])]

IsYes_Loose(resp) == resp # <<>> /\ LowerChar(resp[1]) = "y"

\* response.lower() == 'yes'
IsYes(resp) == Lower(resp) = YES

\* format_map
format_map(code) ==
    CASE code = <<"1">> -> "parquet"
      [] code = <<"2">> -> "csv"
      [] code = <<"3">> -> "hdf"

FormatCodes == { <<"1">>, <<"2">>, <<"3">> }

\* [format_map[f.strip()] for f in format_choice.split(',')
\*  if f.strip() in format_map]
SelectedFormats(choice) ==
    LET codes == Split(choice, ",")
        known == SelectSeq([i \in 1..Len(codes) |-> Strip(codes[i])],
                           LAMBDA c : c \in FormatCodes)
    IN [i \in 1..Len(known) |-> format_map(known[i])]

\* save_processed_data's `if formats is None: formats = ['parquet']`
SaveFormats(given, formats) == IF given THEN formats ELSE <<"parquet">>

FormatsToSave_Default(selected) ==
    IF selected # <<>> THEN SaveFormats(TRUE, selected)
    ELSE SaveFormats(FALSE, selected)

\* what process_transcript_files does with the filtered choice: the formats
\* save_processed_data is called with, none when it is not called
FormatsToSave(selected) ==
    IF selected # <<>> THEN SaveFormats(TRUE, selected) ELSE <<>>

\* pd.to_datetime on the date columns that exist
Timestamp(v) == <<"Timestamp">> \o v

CleanDates(frame) ==
    [frame EXCEPT !.rows =
        [i \in 1..Len(frame.rows) |->
            [k \in 1..Len(frame.columns) |->
                IF InList(frame.columns[k], date_columns)
                THEN Timestamp(frame.rows[i][k])
                ELSE frame.rows[i][k]]]]

HasDateColumn(frame) ==
    \E k \in 1..Len(frame.columns) : InList(frame.columns[k], date_columns)

CountOf(list, x) == Cardinality({i \in 1..Len(list) : list[i] = x})

\* lines 182-193: the statistics read three columns by name
StatisticsOk(frame) ==
    /\ CountOf(frame.columns, COMPANYNAME) = 1
    /\ InList(DATEOFCALLUTC, frame.columns)
    /\ InList(TRANSCRIPTCOMPONENTTYPE, frame.columns)

RECURSIVE JoinFields(_)
JoinFields(cells) ==
    IF Len(cells) = 1 THEN cells[1]
    ELSE cells[1] \o <<FIELD_SEP>> \o JoinFields(Tail(cells))

Row(cells) == JoinFields(cells) \o <<ROW_SEP>>

X == <<"x">>
Y == <<"y">>
Q == <<"q">>
D1 == <<"1">>
D2 == <<"2">>

TranscriptHeader ==
    Row(<<COMPANYNAME, DATEOFCALLUTC, TRANSCRIPTCOMPONENTTYPE>>)

\* the contents the two input files may have
SampleFiles ==
    { \* the same record twice
      TranscriptHeader \o Row(<<X, D1, Q>>) \o Row(<<X, D1, Q>>),
      \* a blank row, and a last record without its row separator
      TranscriptHeader \o Row(<<Y, D2, Q>>) \o <<" ", ROW_SEP>>
          \o JoinFields(<<X, D1, Q>>),
      \* one more column
      Row(<<COMPANYNAME, ANNOUNCEDDATEUTC, DATEOFCALLUTC,
            TRANSCRIPTCOMPONENTTYPE>>) \o Row(<<Y, D1, D2, Q>>),
      \* none of the expected columns
      Row(<<A, B>>) \o Row(<<X, Y>>),
      \* a header and no record
      TranscriptHeader,
      \* a record longer than the header
      TranscriptHeader \o Row(<<X, D1, Q, Q>>) }

Responses == { YES, <<"Y", "E", "S">>, <<"n", "o">>, <<"y">>, <<>> }

ChoiceAlphabet == {"1", "2", "3", "4", ",", " "}

RECURSIVE SeqsUpTo(_, _)
SeqsUpTo(S, n) ==
    IF n = 0 THEN { <<>> }
    ELSE LET shorter == SeqsUpTo(S, n - 1)
         IN shorter \cup { Append(q, c) : q \in shorter, c \in S }

FormatChoices == SeqsUpTo(ChoiceAlphabet, MaxChoice)

ReaderIdle ==
    /\ file = <<>>
    /\ pos = 0
    /\ eof = FALSE
    /\ nrows = <<>>
    /\ usecols = <<>>
    /\ chunksize = DefaultChunksize
    /\ pc = "idle"
    /\ header_line = InitLocals.header_line
    /\ headers = InitLocals.headers
    /\ col_indices = InitLocals.col_indices
    /\ used_headers = InitLocals.used_headers
    /\ current_row = InitLocals.current_row
    /\ current_chunk = InitLocals.current_chunk
    /\ dfs = InitLocals.dfs
    /\ chunk_count = InitLocals.chunk_count
    /\ row_count = InitLocals.row_count
    /\ final_df = InitLocals.final_df

ProcInit ==
    /\ ReaderIdle
    /\ ppc = "analyze"
    /\ files \in SampleFiles \X SampleFiles
    /\ sample_df = NoFrame
    /\ file_index = 0
    /\ file_dfs = <<>>
    /\ df = NoFrame
    /\ response = <<>>
    /\ save_response = <<>>
    /\ format_choice = <<>>
    /\ selected_formats = <<>>
    /\ save_index = 0
    /\ save_results = {}
    /\ processed_data = {}

\* line 149 (128-143): the structure of the first file, from its first rows
AnalyzeStructure ==
    /\ ppc = "analyze"
    /\ LET r == read_custom_format(files[1], <<AnalyzeNrows>>, <<>>,
                                   DefaultChunksize)
       IN IF r.pc = "done"
          THEN sample_df' = r.final_df /\ ppc' = "ask_proceed"
          ELSE sample_df' = sample_df /\ ppc' = "aborted"
    /\ UNCHANGED <<readerVars, files, file_index, file_dfs, df, response,
                   save_response, format_choice, selected_formats,
                   save_index, save_results, processed_data>>

\* lines 151-156
AskProceed ==
    /\ ppc = "ask_proceed"
    /\ \E resp \in Responses :
          /\ response' = resp
          /\ ppc' = IF IsYes(resp) THEN "read_files" ELSE "done"
    /\ UNCHANGED <<readerVars, files, sample_df, file_index, file_dfs, df,
                   save_response, format_choice, selected_formats,
                   save_index, save_results, processed_data>>

\* lines 162-175, one file: read it and convert its date columns;
\* pd.to_datetime raises on a value it cannot parse
ProcessFile ==
    /\ ppc = "read_files"
    /\ LET r == read_custom_format(files[file_index + 1], <<>>, <<>>,
                                   DefaultChunksize)
       IN \/ /\ r.pc = "done"
             /\ file_dfs' = Append(file_dfs, CleanDates(r.final_df))
             /\ file_index' = file_index + 1
             /\ ppc' = IF file_index + 1 = Len(files) THEN "combine"
                       ELSE "read_files"
          \/ /\ r.pc # "done" \/ HasDateColumn(r.final_df)
             /\ ppc' = "aborted"
             /\ UNCHANGED <<file_dfs, file_index>>
    /\ UNCHANGED <<readerVars, files, sample_df, df, response,
                   save_response, format_choice, selected_formats,
                   save_index, save_results, processed_data>>

\* lines 177-193
CombineFiles ==
    /\ ppc = "combine"
    /\ LET all == Concat(file_dfs)
       IN IF all.ok /\ StatisticsOk(all)
          THEN df' = all /\ ppc' = "ask_save"
          ELSE df' = df /\ ppc' = "aborted"
    /\ UNCHANGED <<readerVars, files, sample_df, file_index, file_dfs,
                   response, save_response, format_choice,
                   selected_formats, save_index, save_results,
                   processed_data>>

\* lines 195-198
AskSave ==
    /\ ppc = "ask_save"
    /\ \E resp \in Responses :
          /\ save_response' = resp
          /\ ppc' = IF IsYes(resp) THEN "choose_formats" ELSE "done"
    /\ UNCHANGED <<readerVars, files, sample_df, file_index, file_dfs, df,
                   response, format_choice, selected_formats, save_index,
                   save_results, processed_data>>

\* lines 199-221
ChooseFormats ==
    /\ ppc = "choose_formats"
    /\ \E choice \in FormatChoices :
          /\ format_choice' = choice
          /\ selected_formats' = SelectedFormats(choice)
          /\ ppc' = IF FormatsToSave(SelectedFormats(choice)) # <<>>
                    THEN "saving" ELSE "done"
    /\ UNCHANGED <<readerVars, files, sample_df, file_index, file_dfs, df,
                   response, save_response, save_index, save_results,
                   processed_data>>

\* lines 24-41, one format: the file is written, or the write raises
SaveFormat ==
    /\ ppc = "saving"
    /\ LET formats == FormatsToSave(selected_formats)
           fmt == formats[save_index + 1]
       IN \/ /\ processed_data' = processed_data \cup {fmt}
             /\ save_results' = save_results \cup {fmt}
             /\ save_index' = save_index + 1
             /\ ppc' = IF save_index + 1 = Len(formats) THEN "done"
                       ELSE "saving"
          \/ /\ ppc' = "save_aborted"
             /\ UNCHANGED <<processed_data, save_results, save_index>>
    /\ UNCHANGED <<readerVars, files, sample_df, file_index, file_dfs, df,
                   response, save_response, format_choice,
                   selected_formats>>

ProcNext ==
    \/ AnalyzeStructure
    \/ AskProceed
    \/ ProcessFile
    \/ CombineFiles
    \/ AskSave
    \/ ChooseFormats
    \/ SaveFormat

ProcSpec == ProcInit /\ [][ProcNext]_vars

----------------------------------------------------------------------------
(* What the claims speak of, read off the characters of the stream rather  *)
(* than off the reader's steps.                                            *)

\* the characters the handle has returned
Consumed == SubSeq(file, 1, pos)

SepPositions(s) == {i \in 1..Len(s) : s[i] = ROW_SEP}

\* the row separator before position i; 0 at the start of the stream
PrevSep(s, i) ==
    LET before == {j \in SepPositions(s) : j < i}
    IN IF before = {} THEN 0
       ELSE CHOOSE j \in before : \A k \in before : k <= j

ContentBefore(s, i) == SubSeq(s, PrevSep(s, i) + 1, i - 1)

NonBlank(t) == \E k \in 1..Len(t) : t[k] \notin Whitespace

\* the row separators whose preceding content is non-empty after trimming
QualifyingSeps(s) ==
    {i \in SepPositions(s) : NonBlank(ContentBefore(s, i))}

\* those that end a record: all but the first separator, which ends the header
RecordEnds(s) == {i \in QualifyingSeps(s) : PrevSep(s, i) > 0}

RECURSIVE Ascending(_)
Ascending(S) ==
    IF S = {} THEN <<>>
    ELSE LET m == CHOOSE x \in S : \A y \in S : x <= y
         IN <<m>> \o Ascending(S \ {m})

\* the text of each record, in stream order
RecordTexts(s) ==
    LET ends == Ascending(RecordEnds(s))
    IN [r \in 1..Len(ends) |-> ContentBefore(s, ends[r])]

FieldAt(fields, p) == IF p <= Len(fields) THEN fields[p] ELSE NoneValue

\* the requested names the header has, in the requested order
Requested == SelectSeq(usecols, LAMBDA c : InList(c, headers))

ProjectedRow(text, names) ==
    LET fields == Split(text, FIELD_SEP)
    IN [k \in 1..Len(names) |-> FieldAt(fields, IndexOf(headers, names[k]))]

\* a record as the batch holds it, and as a table holds it
RawRow(text) ==
    IF usecols # <<>> THEN ProjectedRow(text, Requested)
    ELSE Split(text, FIELD_SEP)

TableRow(text) ==
    LET raw == RawRow(text)
    IN [k \in 1..Len(used_headers) |-> FieldAt(raw, k)]

RECURSIVE RowsIn(_)
RowsIn(frames) ==
    IF frames = <<>> THEN 0 ELSE Len(Head(frames).rows) + RowsIn(Tail(frames))

\* the records the reader holds: the fragments' rows, then the current batch
\* (which lines 118-120 copy into the last fragment without emptying it)
HeldRows ==
    IF pc \in {"concat", "done"} THEN PlainRows(dfs)
    ELSE PlainRows(dfs) \o current_chunk

Min(a, b) == IF a <= b THEN a ELSE b

\* every record of s has as many fields as the header
WellFormed(s) ==
    LET texts == RecordTexts(s)
    IN \A r \in 1..Len(texts) :
          Len(Split(texts[r], FIELD_SEP)) = Len(headers)

----------------------------------------------------------------------------
(* The reader's claims, under Spec. *)

\* C2, as stated: after a read with no row limit, the number of emitted
\* records equals the number of row separators (counted from the start of
\* the stream) whose preceding content is non-empty after trimming.
C2_Original ==
    (pc = "done" /\ nrows = <<>>)
        => row_count = Cardinality(QualifyingSeps(Consumed))

\* C2, amended: at every point of a read, the number of records emitted so
\* far equals the number of consumed row separators, other than the first
\* one (which ends the header), whose preceding content is non-empty after
\* trimming; a separator preceded by blank content counts for nothing.
C2_RecordCount == row_count = Cardinality(RecordEnds(Consumed))

C2_Witness ==
    /\ pc = "done"
    /\ nrows = <<>>
    /\ row_count >= 1
    /\ \E i \in SepPositions(Consumed) :
          /\ PrevSep(Consumed, i) > 0
          /\ ContentBefore(Consumed, i) # <<>>
          /\ ~NonBlank(ContentBefore(Consumed, i))

\* C3: the outcome of a read (the table, or the failure) is the same for
\* every chunksize >= 1.
C3_ChunkInvisible ==
    pc \in {"done", "failed"} =>
        \A cs \in 1..(MaxChunk + 1) :
            LET r == read_custom_format(file, nrows, usecols, cs)
            IN r.pc = pc /\ r.final_df = final_df

\* C4, as stated: with usecols, the k-th output field of every record is the
\* record's field at the header position of the k-th requested column, or
\* None when the record is too short.
C4_Original ==
    (usecols # <<>> /\ pc # "header") =>
        LET texts == RecordTexts(Consumed)
        IN \A r \in 1..Min(Len(HeldRows), Len(texts)) :
              /\ Len(HeldRows[r]) = Len(usecols)
              /\ \A k \in 1..Len(usecols) :
                    /\ InList(usecols[k], headers)
                    /\ HeldRows[r][k] =
                         FieldAt(Split(texts[r], FIELD_SEP),
                                 IndexOf(headers, usecols[k]))

\* C4, amended: with usecols, the requested names that the header lacks are
\* dropped; the k-th output field of every record is the record's field at
\* the first header position of the k-th requested name that the header has,
\* or None when the record is too short; and no batch of such a read fails
\* to convert (the read fails only when the stream holds no record).
C4_Projection ==
    (usecols # <<>> /\ pc # "header") =>
        LET texts == RecordTexts(Consumed)
        IN /\ used_headers = Requested
           /\ Len(HeldRows) = Len(texts)
           /\ \A r \in 1..Len(texts) :
                 HeldRows[r] = ProjectedRow(texts[r], Requested)
           /\ pc = "failed" => row_count = 0

C4_Witness ==
    /\ pc = "done"
    /\ usecols = <<B, A>>
    /\ headers = <<A, B>>
    /\ \E r \in 1..Len(final_df.rows) : final_df.rows[r] = <<NoneValue, A>>
    /\ \E r \in 1..Len(final_df.rows) : final_df.rows[r] = <<<<>>, <<>>>>

\* C5: with a row limit N the read of a well-formed stream returns a table
\* of min(N, records of the stream) rows, and consumes nothing after the row
\* separator that ended the N-th record.
C5_RowLimit ==
    (nrows # <<>> /\ pc \in {"done", "failed"} /\ WellFormed(Consumed)) =>
        /\ pc = "done"
        /\ Len(final_df.rows) = Min(nrows[1], Len(RecordTexts(Consumed)))
        /\ Len(RecordTexts(SubSeq(Consumed, 1, pos - 1))) < Max(nrows[1], 1)

\* the batches the records fall into, chunksize at a time
BatchCount == Len(RecordTexts(Consumed)) \div chunksize

BatchOf(b) ==
    LET texts == RecordTexts(Consumed)
    IN [j \in 1..chunksize |-> RawRow(texts[(b - 1) * chunksize + j])]

LastBatch ==
    LET texts == RecordTexts(Consumed)
    IN [j \in 1..(Len(texts) - BatchCount * chunksize) |->
           RawRow(texts[BatchCount * chunksize + j])]

\* a batch that does not convert: a record longer than the header, or no
\* record as long as the header
Malformed(batch) ==
    /\ batch # <<>>
    /\ \/ \E j \in 1..Len(batch) : Len(batch[j]) > Len(used_headers)
       \/ \A j \in 1..Len(batch) : Len(batch[j]) < Len(used_headers)

\* C6, its lenient half: a batch that fails conversion is skipped and the
\* read goes on, so no read that has emitted a record fails.
C6_LenientSkips == ~(pc = "failed" /\ row_count > 0)

\* C6, amended: read_custom_format has one mode.  A batch fails conversion
\* when a record of it has more fields than the header or none has as many
\* (a shorter record beside a full one is padded with None and kept); the
\* failure is always fatal: the read ends without a table.  A read that
\* returns a table has skipped no record.
C6_ConversionFatal ==
    pc # "header" =>
        /\ (\E b \in 1..BatchCount : Malformed(BatchOf(b))) => pc = "failed"
        /\ (pc \in {"concat", "done"}) => ~Malformed(LastBatch)
        /\ pc = "failed" => final_df = NoFrame
        /\ pc = "done" => Len(final_df.rows) = Len(RecordTexts(Consumed))

C6_Witness ==
    /\ pc = "failed"
    /\ Len(dfs) >= 1
    /\ Malformed(current_chunk)

C10_UnterminatedTail ==
    LET last == PrevSep(file, Len(file) + 1)
    IN (/\ pc \in {"done", "failed"}
        /\ eof
        /\ nrows = <<>>
        /\ last > 0
        /\ NonBlank(SubSeq(file, last + 1, Len(file)))
        /\ WellFormed(Append(file, ROW_SEP)))
       => /\ pc = "done"
          /\ LET r == read_custom_format(Append(file, ROW_SEP), nrows,
                                         usecols, chunksize)
             IN /\ r.pc = "done"
                /\ Len(r.final_df.rows) = Len(final_df.rows) + 1

----------------------------------------------------------------------------
(* The driver's claims, under ProcSpec. *)

\* 'yes' in any case
SaysYes(resp) ==
    /\ Len(resp) = 3
    /\ resp[1] \in {"y", "Y"}
    /\ resp[2] \in {"e", "E"}
    /\ resp[3] \in {"s", "S"}

\* the recognized codes among the comma-separated pieces of the choice
RecognizedIn(choice) ==
    {code \in FormatCodes :
        \E i, j \in 1..Len(choice) :
            /\ i <= j
            /\ (i = 1 \/ choice[i - 1] = ",")
            /\ (j = Len(choice) \/ choice[j + 1] = ",")
            /\ \A k \in i..j : choice[k] # ","
            /\ Strip(SubSeq(choice, i, j)) = code}

Chosen == SaysYes(save_response) /\ ppc # "choose_formats"

\* C1, as stated: a choice with no recognized code saves the data in the
\* default format, parquet.
C1_Original ==
    (Chosen /\ RecognizedIn(format_choice) = {})
        => (ppc = "done" /\ processed_data = {"parquet"})

\* C1, amended: the unrecognized codes are silently filtered out; when the
\* filtered set is empty nothing is saved ("No valid formats selected. Data
\* not saved.") and the function returns the table without failing.
C1_NothingSaved ==
    Chosen =>
        /\ {selected_formats[i] : i \in 1..Len(selected_formats)}
             = {format_map(code) : code \in RecognizedIn(format_choice)}
        /\ processed_data \subseteq
             {format_map(code) : code \in RecognizedIn(format_choice)}
        /\ RecognizedIn(format_choice) = {} =>
              /\ ppc = "done"
              /\ processed_data = {}
              /\ save_results = {}

C1_Witness ==
    /\ Chosen
    /\ ppc = "done"
    /\ InList("4", format_choice)
    /\ InList(",", format_choice)
    /\ RecognizedIn(format_choice) = {}
    /\ processed_data = {}

\* C7: an output file exists only after both answers were 'yes', every input
\* file was read to its end and the per-file tables were concatenated; a run
\* that aborts while reading or aggregating leaves no output file.
C7_NoPartialResult ==
    /\ processed_data # {} =>
          /\ ppc \in {"saving", "done", "save_aborted"}
          /\ SaysYes(response)
          /\ SaysYes(save_response)
          /\ Len(file_dfs) = Len(files)
          /\ \A i \in 1..Len(files) :
                Len(file_dfs[i].rows) = Cardinality(RecordEnds(files[i]))
          /\ df.ok
          /\ Len(df.rows) = RowsIn(file_dfs)
    /\ ppc = "aborted" => processed_data = {}
    /\ (~SaysYes(response) \/ ~SaysYes(save_response)) => processed_data = {}

C7_Witness ==
    /\ ppc = "done"
    /\ processed_data = {"parquet", "csv"}
    /\ files[1] # files[2]

\* C8, across files: the combined table holds the rows of the first file,
\* then the rows of the second, each with the values its file gave them.
C8_AcrossFiles ==
    df.ok =>
        LET n1 == Cardinality(RecordEnds(files[1]))
            n2 == Cardinality(RecordEnds(files[2]))
            first == file_dfs[1]
            second == file_dfs[2]
        IN /\ Len(df.rows) = n1 + n2
           /\ \A r \in 1..n1 : \A k \in 1..Len(first.columns) :
                 df.rows[r][IndexOf(df.columns, first.columns[k])]
                     = first.rows[r][k]
           /\ \A r \in 1..n2 : \A k \in 1..Len(second.columns) :
                 df.rows[n1 + r][IndexOf(df.columns, second.columns[k])]
                     = second.rows[r][k]

C8_AcrossFilesWitness ==
    /\ df.ok
    /\ file_dfs[1].columns # file_dfs[2].columns
    /\ Len(file_dfs[1].rows) = 2

====
